---- MODULE Spec2Model ----
(***************************************************************************)
(* short_future: the retry driver with_retries (src/lib.rs, mod tests) and *)
(* the ShortBoxFuture it awaits.  One run of with_retries is modelled as a *)
(* sequential process whose program counter walks the lines of the loop    *)
(* body; the caller may drop the driver while it is suspended in .await.   *)
(***************************************************************************)
EXTENDS Integers, Sequences, FiniteSets, TLC

\* `for i in 0..100`
MaxAttempts == 100

\* How many times one callback future may answer Poll::Pending before it
\* answers Poll::Ready (a bound of the model, not of the program).
MaxPolls == 2

\* The outer `data` strings tried: format!("{k} transaction") for these k.
DataTargets == {0, 11, 99, 999}

\* The callbacks tried: the closures of the tests, which all borrow `data`
\* and the session and answer str_eq(session, &data), and an arbitrary F
\* whose future may suspend and may answer either way.
Callbacks == {"str_eq", "opaque"}

NoTransaction == -1
NoFuture == -1
NoResult == "none"
NoReturn == -1

VARIABLES
    data,         \* the String owned by the caller, borrowed by the closure
    f,            \* the callback handed to with_retries
    pc,           \* where the driver is
    i,            \* the loop variable
    transaction,  \* the local `transaction`: the id of its String, or none
    heap,         \* the live transaction Strings: id -> contents
    fut,          \* the temporary f(&transaction): the id of its box, or none
    boxes,        \* the live pinned futures: id -> computation
    polls,        \* polls of the current future so far
    result,       \* the local `result`
    ret,          \* the value with_retries returned
    outcomes,     \* history: the outputs of the futures completed so far
    log           \* history: the lifecycle events so far, <<event, id>>

vars == <<data, f, pc, i, transaction, heap, fut, boxes, polls, result, ret,
          outcomes, log>>

----------------------------------------------------------------------------
\* Helpers

Digit(d) == <<"0", "1", "2", "3", "4", "5", "6", "7", "8", "9">>[d + 1]

RECURSIVE Decimal(_)
Decimal(n) == IF n < 10 THEN Digit(n) ELSE Decimal(n \div 10) \o Digit(n % 10)

\* format!("{i} transaction")
format(n) == Decimal(n) \o " transaction"

\* str_eq(a, b)
str_eq(a, b) == IF a = b THEN "Ok" ELSE "Err"

Remove(h, k) == [x \in DOMAIN h \ {k} |-> h[x]]

Count(ev) == Cardinality({p \in DOMAIN log : log[p][1] = ev})

Created == Count("create")
Released == Count("release")

\* The computation the callback builds around the borrowed session; nothing
\* of it has run yet.
Closure(session) == [kind |-> f, session |-> session, state |-> "unpolled"]

\* Variant of From: the computation is polled once while it is being boxed.
From_Runs(fu, bid) == (bid :> [fu EXCEPT !.state = "pending"]) @@ boxes

\* ShortBoxFuture::from: Box::pin(f) moves the computation, as it is, into a
\* fresh box.
From(fu, bid) == (bid :> fu) @@ boxes

\* What a poll that completes the computation may answer.  The closures of
\* the tests read the session and the outer data; a read through a dangling
\* session may see anything.
Output(fu) ==
    IF fu.kind = "str_eq"
    THEN IF fu.session \in DOMAIN heap
         THEN {str_eq(heap[fu.session], data)}
         ELSE {"Ok", "Err"}
    ELSE {"Ok", "Err"}

LogAwait == IF polls = 0 THEN Append(log, <<"await", boxes[fut].session>>) ELSE log

----------------------------------------------------------------------------
Init ==
    /\ data \in {format(k) : k \in DataTargets}
    /\ f \in Callbacks
    /\ pc = "for"
    /\ i = 0
    /\ transaction = NoTransaction
    /\ heap = <<>>
    /\ fut = NoFuture
    /\ boxes = <<>>
    /\ polls = 0
    /\ result = NoResult
    /\ ret = NoReturn
    /\ outcomes = <<>>
    /\ log = <<>>

\* Variant of ForNext: the range is taken as 0..=100.
ForNext_Inclusive ==
    /\ pc = "for"
    /\ IF i <= MaxAttempts
       THEN /\ pc' = "format"
            /\ ret' = ret
       ELSE /\ pc' = "Exhausted"
            /\ ret' = 0
    /\ UNCHANGED <<data, f, i, transaction, heap, fut, boxes, polls, result,
                   outcomes, log>>

\* for i in 0..100 { ... } 0
ForNext ==
    /\ pc = "for"
    /\ IF i < MaxAttempts
       THEN /\ pc' = "format"
            /\ ret' = ret
       ELSE /\ pc' = "Exhausted"
            /\ ret' = 0
    /\ UNCHANGED <<data, f, i, transaction, heap, fut, boxes, polls, result,
                   outcomes, log>>

\* Variant of FormatTransaction: the label is built from the tens of i only.
FormatTransaction_Tens ==
    /\ pc = "format"
    /\ LET id == Created IN
        /\ heap' = (id :> format(i \div 10)) @@ heap
        /\ transaction' = id
        /\ log' = Append(log, <<"create", id>>)
    /\ pc' = "call"
    /\ UNCHANGED <<data, f, i, fut, boxes, polls, result, ret, outcomes>>

\* let transaction = format!("{i} transaction");
FormatTransaction ==
    /\ pc = "format"
    /\ LET id == Created IN
        /\ heap' = (id :> format(i)) @@ heap
        /\ transaction' = id
        /\ log' = Append(log, <<"create", id>>)
    /\ pc' = "call"
    /\ UNCHANGED <<data, f, i, fut, boxes, polls, result, ret, outcomes>>

\* Variant of CallCallback: the driver takes the outer data out of the
\* caller's String (std::mem::take), leaving it empty.
CallCallback_TakesData ==
    /\ pc = "call"
    /\ LET bid == Count("construct") IN
        /\ boxes' = From(Closure(transaction), bid)
        /\ fut' = bid
    /\ polls' = 0
    /\ data' = ""
    /\ log' = Append(log, <<"construct", transaction>>)
    /\ pc' = "await"
    /\ UNCHANGED <<f, i, transaction, heap, result, ret, outcomes>>

\* Variant of CallCallback: the transaction is freed as soon as the callback
\* has returned, while the future that borrows it is still to be awaited.
CallCallback_FreesSession ==
    /\ pc = "call"
    /\ LET bid == Count("construct") IN
        /\ boxes' = From(Closure(transaction), bid)
        /\ fut' = bid
    /\ polls' = 0
    /\ heap' = Remove(heap, transaction)
    /\ log' = Append(log, <<"construct", transaction>>)
    /\ pc' = "await"
    /\ UNCHANGED <<data, f, i, transaction, result, ret, outcomes>>

\* f(&transaction)
CallCallback ==
    /\ pc = "call"
    /\ LET bid == Count("construct") IN
        /\ boxes' = From(Closure(transaction), bid)
        /\ fut' = bid
    /\ polls' = 0
    /\ log' = Append(log, <<"construct", transaction>>)
    /\ pc' = "await"
    /\ UNCHANGED <<data, f, i, transaction, heap, result, ret, outcomes>>

\* Variant of PollPending: the driver goes on after a poll that answered
\* Poll::Pending, leaving the future behind.
PollPending_GoesOn ==
    /\ pc = "await"
    /\ boxes[fut].kind = "opaque"
    /\ polls < MaxPolls
    /\ boxes' = [boxes EXCEPT ![fut].state = "pending"]
    /\ polls' = polls + 1
    /\ log' = LogAwait
    /\ result' = "Err"
    /\ outcomes' = Append(outcomes, "Err")
    /\ pc' = "drop"
    /\ UNCHANGED <<data, f, i, transaction, heap, fut, ret>>

\* .0.await, a poll that answers Poll::Pending: with_retries stays suspended
PollPending ==
    /\ pc = "await"
    /\ boxes[fut].kind = "opaque"
    /\ polls < MaxPolls
    /\ boxes' = [boxes EXCEPT ![fut].state = "pending"]
    /\ polls' = polls + 1
    /\ log' = LogAwait
    /\ UNCHANGED <<data, f, pc, i, transaction, heap, fut, result, ret, outcomes>>

\* Variant of PollReady: the completed future is kept, not discarded.
PollReady_KeepsFuture ==
    /\ pc = "await"
    /\ \E r \in Output(boxes[fut]) :
        /\ result' = r
        /\ outcomes' = Append(outcomes, r)
    /\ polls' = polls + 1
    /\ log' = LogAwait
    /\ pc' = "drop"
    /\ UNCHANGED <<data, f, i, transaction, heap, fut, boxes, ret>>

\* Variant of PollReady: on Ok the driver goes to the match at once, past
\* the drop of the transaction.
PollReady_ReturnsEarly ==
    /\ pc = "await"
    /\ \E r \in Output(boxes[fut]) :
        /\ result' = r
        /\ outcomes' = Append(outcomes, r)
        /\ pc' = IF r = "Ok" THEN "match" ELSE "drop"
    /\ boxes' = Remove(boxes, fut)
    /\ fut' = NoFuture
    /\ polls' = polls + 1
    /\ log' = LogAwait
    /\ UNCHANGED <<data, f, i, transaction, heap, ret>>

\* let result = ... .0.await; a poll that answers Poll::Ready(result); the
\* temporary ShortBoxFuture is dropped at the end of the statement
PollReady ==
    /\ pc = "await"
    /\ \E r \in Output(boxes[fut]) :
        /\ result' = r
        /\ outcomes' = Append(outcomes, r)
    /\ boxes' = Remove(boxes, fut)
    /\ fut' = NoFuture
    /\ polls' = polls + 1
    /\ log' = LogAwait
    /\ pc' = "drop"
    /\ UNCHANGED <<data, f, i, transaction, heap, ret>>

\* Variant of DropTransaction: the transaction is forgotten, never freed.
DropTransaction_Forgets ==
    /\ pc = "drop"
    /\ transaction' = NoTransaction
    /\ pc' = "match"
    /\ UNCHANGED <<data, f, i, heap, fut, boxes, polls, result, ret, outcomes, log>>

\* drop(transaction);
DropTransaction ==
    /\ pc = "drop"
    /\ heap' = Remove(heap, transaction)
    /\ log' = Append(log, <<"release", transaction>>)
    /\ transaction' = NoTransaction
    /\ pc' = "match"
    /\ UNCHANGED <<data, f, i, fut, boxes, polls, result, ret, outcomes>>

\* Variant of MatchResult: the Ok arm does not return.
MatchResult_NoReturn ==
    /\ pc = "match"
    /\ ret' = ret
    /\ pc' = "for"
    /\ i' = i + 1
    /\ result' = NoResult
    /\ UNCHANGED <<data, f, transaction, heap, fut, boxes, polls, outcomes, log>>

\* Variant of MatchResult: the Err arm goes back to the callback without a
\* new transaction.
MatchResult_RetriesCall ==
    /\ pc = "match"
    /\ IF result = "Ok"
       THEN /\ ret' = i
            /\ pc' = "Succeeded"
            /\ i' = i
       ELSE /\ ret' = ret
            /\ pc' = IF i + 1 < MaxAttempts THEN "call" ELSE "for"
            /\ i' = i + 1
    /\ result' = NoResult
    /\ UNCHANGED <<data, f, transaction, heap, fut, boxes, polls, outcomes, log>>

\* Variant of MatchResult: the Err arm starts over at attempt 0.
MatchResult_StartsOver ==
    /\ pc = "match"
    /\ IF result = "Ok"
       THEN /\ ret' = i
            /\ pc' = "Succeeded"
            /\ i' = i
       ELSE /\ ret' = ret
            /\ pc' = "for"
            /\ i' = 0
    /\ result' = NoResult
    /\ UNCHANGED <<data, f, transaction, heap, fut, boxes, polls, outcomes, log>>

\* Variant of MatchResult: the Err arm skips an attempt index.
MatchResult_SkipsAttempt ==
    /\ pc = "match"
    /\ IF result = "Ok"
       THEN /\ ret' = i
            /\ pc' = "Succeeded"
            /\ i' = i
       ELSE /\ ret' = ret
            /\ pc' = "for"
            /\ i' = IF i + 2 <= MaxAttempts THEN i + 2 ELSE MaxAttempts
    /\ result' = NoResult
    /\ UNCHANGED <<data, f, transaction, heap, fut, boxes, polls, outcomes, log>>

\* match result { Ok(()) => return i, Err(()) => {} }
MatchResult ==
    /\ pc = "match"
    /\ IF result = "Ok"
       THEN /\ ret' = i
            /\ pc' = "Succeeded"
            /\ i' = i
       ELSE /\ ret' = ret
            /\ pc' = "for"
            /\ i' = i + 1
    /\ result' = NoResult
    /\ UNCHANGED <<data, f, transaction, heap, fut, boxes, polls, outcomes, log>>

\* Variant of Abandon: the suspended locals are leaked, not dropped.
Abandon_Leaks ==
    /\ pc = "await"
    /\ boxes[fut].state = "pending"
    /\ pc' = "Abandoned"
    /\ UNCHANGED <<data, f, i, transaction, heap, fut, boxes, polls, result, ret,
                   outcomes, log>>

\* The caller drops the future of with_retries while it is suspended in
\* .await: the locals held across the await are dropped, the awaited future
\* first, then `transaction`.
Abandon ==
    /\ pc = "await"
    /\ boxes[fut].state = "pending"
    /\ boxes' = Remove(boxes, fut)
    /\ fut' = NoFuture
    /\ heap' = Remove(heap, transaction)
    /\ log' = Append(log, <<"release", transaction>>)
    /\ transaction' = NoTransaction
    /\ pc' = "Abandoned"
    /\ UNCHANGED <<data, f, i, polls, result, ret, outcomes>>

with_retries ==
    \/ ForNext
    \/ FormatTransaction
    \/ CallCallback
    \/ PollPending
    \/ PollReady
    \/ DropTransaction
    \/ MatchResult

Next == with_retries \/ Abandon

Spec == Init /\ [][Next]_vars

\* The driver awaited to the end: the caller never drops it, every step of
\* the driver that can be taken is taken, and every future returned by the
\* callback completes.
LiveSpec ==
    /\ Init
    /\ [][with_retries]_vars
    /\ WF_vars(ForNext \/ FormatTransaction \/ CallCallback
               \/ DropTransaction \/ MatchResult)
    /\ WF_vars(PollReady)

Terminal == {"Succeeded", "Exhausted"}

Live == DOMAIN heap

Steps == <<"create", "construct", "await", "release">>

\* The operation failed on attempts 0..k-1 and succeeded on attempt k.
FailsThenSucceeds(k) ==
    /\ Len(outcomes) > k
    /\ \A j \in 1..k : outcomes[j] = "Err"
    /\ outcomes[k + 1] = "Ok"

\* The operation failed on all MaxAttempts attempts.
AllFailed ==
    /\ Len(outcomes) = MaxAttempts
    /\ \A j \in 1..MaxAttempts : outcomes[j] = "Err"

----------------------------------------------------------------------------
\* C1: when the operation fails on attempts 0..k-1 and succeeds on attempt
\* k, exactly k+1 resources are ever created (attempt k+1 is never
\* started), and the driver returns from the Ok arm with index k after
\* exactly k+1 releases.
C1_SuccessAtK ==
    \A k \in 0..(MaxAttempts - 1) :
        FailsThenSucceeds(k) =>
            /\ Created = k + 1
            /\ Len(outcomes) = k + 1
            /\ pc \in {"drop", "match", "Succeeded"}
            /\ pc = "Succeeded" => (ret = k /\ Released = k + 1)

\* The scenario of the tests: data = "11 transaction", returned 11 after 12
\* creations and 12 releases.
C1_Witness ==
    /\ pc = "Succeeded"
    /\ f = "str_eq"
    /\ data = "11 transaction"
    /\ ret = 11
    /\ Created = 12
    /\ Released = 12

\* C2: when the operation fails on all MaxAttempts attempts the driver
\* falls out of the loop after creating exactly MaxAttempts resources and
\* releasing exactly MaxAttempts; it falls out of the loop only then, and
\* no run creates more than MaxAttempts resources.
C2_Exhaustion ==
    /\ Created <= MaxAttempts
    /\ AllFailed => (Created = MaxAttempts /\ pc \in {"drop", "match", "for", "Exhausted"})
    /\ pc = "Exhausted" =>
        (AllFailed /\ Created = MaxAttempts /\ Released = MaxAttempts)

C2_Witness ==
    /\ pc = "Exhausted"
    /\ f = "str_eq"
    /\ data = "999 transaction"
    /\ Created = 100
    /\ Released = 100

\* C3: the value returned on exhaustion differs from the value returned
\* for a success at every attempt index.
C3_ExhaustionDistinct ==
    pc = "Exhausted" => \A k \in 0..(MaxAttempts - 1) : ret # k

\* A step that creates the resource of an attempt.
CreateStep == Len(log') > Len(log) /\ log'[Len(log')][1] = "create"

\* Nothing is live before the step, and the resource of the attempt before
\* the created one was released last.
CreatedAfterRelease ==
    /\ Live = {}
    /\ LET id == log'[Len(log')][2] IN
        id > 0 => /\ Len(log) > 0
                  /\ log[Len(log)] = <<"release", id - 1>>

\* C4: a resource is created only when no resource is live and, for every
\* attempt after the first, after the release of the resource before it;
\* at most one resource is live in every state.
C4_ReleaseBeforeCreate ==
    /\ [](Cardinality(Live) <= 1)
    /\ [][CreateStep => CreatedAfterRelease]_vars

\* The second attempt's resource is live, the first one's released.
C4_Witness ==
    /\ Live = {1}
    /\ Created = 2
    /\ Released = 1

\* C5: the lifecycle events of a run are, in order, create, construct,
\* await, release of attempt 0, then the same four of attempt 1, and so on:
\* none skipped, repeated or interleaved.
C5_LifecycleOrder ==
    \A p \in DOMAIN log : log[p] = <<Steps[((p - 1) % 4) + 1], (p - 1) \div 4>>

\* Three whole attempts have run.
C5_Witness ==
    /\ Len(log) = 12
    /\ pc = "match"

\* C6: a driver dropped while suspended has released the resource of the
\* suspended attempt and the future that borrowed it, without an outcome
\* of that attempt.
C6_AbandonReleases ==
    pc = "Abandoned" =>
        /\ Live = {}
        /\ DOMAIN boxes = {}
        /\ transaction = NoTransaction
        /\ Released = Created
        /\ log[Len(log)] = <<"release", Created - 1>>
        /\ Len(outcomes) = Created - 1
        /\ result = NoResult

\* Dropped in the third attempt.
C6_Witness ==
    /\ pc = "Abandoned"
    /\ Created = 3
    /\ Released = 3

\* Once the driver has returned nothing changes.
StaysReturned == pc \in Terminal => UNCHANGED vars

\* C7: a driver awaited to the end reaches Succeeded or Exhausted, creates
\* at most MaxAttempts resources, and takes no step once it has returned.
C7_Termination ==
    /\ <>(pc \in Terminal)
    /\ [](Created <= MaxAttempts /\ Len(outcomes) <= MaxAttempts)
    /\ [][StaysReturned]_vars

C7_Witness ==
    /\ pc = "Exhausted"
    /\ Len(outcomes) = MaxAttempts

\* A step that polls the current future.
PollStep == polls' = polls + 1

\* The polled future borrows a live resource: the one bound to
\* `transaction`, created in the current attempt.
PolledSessionLive ==
    /\ fut \in DOMAIN boxes
    /\ boxes[fut].session \in Live
    /\ boxes[fut].session = transaction
    /\ boxes[fut].session = Created - 1
    /\ Created = i + 1

\* C8: every poll of a future happens while the resource it borrows is
\* live, and that resource is the one created in the current attempt; a
\* future never exists without its resource; no resource is live once the
\* driver has returned or has been dropped.
C8_PolledWhileLive ==
    /\ [][PollStep => PolledSessionLive]_vars
    /\ [](\A b \in DOMAIN boxes : boxes[b].session \in Live)
    /\ [](pc \in Terminal \cup {"Abandoned"} => Live = {})

\* The future of the second attempt has been polled and is suspended.
C8_Witness ==
    /\ pc = "await"
    /\ polls = 2
    /\ i = 1
    /\ Live = {1}

\* C9: at most one future exists at a time, and the driver is past the
\* await step only with the future completed, its output in `result`.
C9_OneOutstanding ==
    /\ Cardinality(DOMAIN boxes) <= 1
    /\ pc # "await" => DOMAIN boxes = {}
    /\ pc \in {"drop", "match"} =>
        /\ result \in {"Ok", "Err"}
        /\ Len(outcomes) = Created
        /\ outcomes[Len(outcomes)] = result

\* Past the await of the second attempt, whose future had suspended.
C9_Witness ==
    /\ pc = "drop"
    /\ polls = 3
    /\ i = 1

----------------------------------------------------------------------------
\* The control state of the driver: Attempting(i) inside the loop, Exhausted
\* once the range 0..100 has run out, Succeeded once the Ok arm has returned.
\* A driver dropped by its caller stays in the attempt it was suspended in.
DriverState ==
    IF pc = "Succeeded" THEN <<"Succeeded">>
    ELSE IF pc = "Exhausted" \/ (pc = "for" /\ i >= MaxAttempts) THEN <<"Exhausted">>
    ELSE <<"Attempting", i>>

\* A step of the machine: none, or out of Attempting(k) by the outcome in
\* `result`; the match always moves on.
MachineStep ==
    LET s == DriverState
        t == DriverState'
    IN  /\ \/ t = s
           \/ /\ s[1] = "Attempting"
              /\ pc = "match"
              /\ \/ result = "Ok" /\ t = <<"Succeeded">>
                 \/ result = "Err" /\ s[2] + 1 < MaxAttempts
                                   /\ t = <<"Attempting", s[2] + 1>>
                 \/ result = "Err" /\ s[2] + 1 = MaxAttempts /\ t = <<"Exhausted">>
        /\ (pc = "match" /\ pc' # pc) => t # s

\* C11: the control state starts in Attempting(0) and changes only from
\* Attempting(i): to Succeeded on Ok, to Attempting(i+1) on Err while
\* i+1 < MaxAttempts, to Exhausted on Err when i+1 = MaxAttempts; Succeeded
\* and Exhausted are never left.
C11_StateMachine ==
    /\ DriverState = <<"Attempting", 0>>
    /\ [][MachineStep]_vars

\* Succeeded out of the last attempt, after 99 failures.
C11_Witness ==
    /\ DriverState = <<"Succeeded">>
    /\ ret = MaxAttempts - 1

\* C12: when the driver acts on the outcome (the match, the return, the
\* next turn of the loop) the resource of the attempt has been released,
\* and the release is the last event, on Ok as on Err.
C12_ReleasedBeforeOutcome ==
    /\ pc = "match" =>
        /\ result \in {"Ok", "Err"}
        /\ Live = {}
        /\ transaction = NoTransaction
        /\ log[Len(log)] = <<"release", i>>
    /\ pc = "Succeeded" => log[Len(log)] = <<"release", ret>>
    /\ (pc \in {"for", "Exhausted"} /\ i > 0) => log[Len(log)] = <<"release", i - 1>>

\* About to act on Ok in the third attempt.
C12_Witness ==
    /\ pc = "match"
    /\ result = "Ok"
    /\ i = 2
    /\ Released = 3

\* A step that invokes the callback.
ConstructStep == Len(log') > Len(log) /\ log'[Len(log')][1] = "construct"

\* The callback has not been invoked on this transaction before, and the
\* box it returns is a new one.
FirstConstruct ==
    /\ \A p \in DOMAIN log : log[p] # <<"construct", transaction>>
    /\ fut = NoFuture
    /\ fut' \notin DOMAIN boxes
    /\ fut' = Count("construct")

\* A step that drives a future to completion.
CompleteStep == Len(outcomes') = Len(outcomes) + 1

\* The completed future is the one of the current attempt, it had not
\* completed before, and it is discarded with the step.
CompletesOnce ==
    /\ fut \in DOMAIN boxes
    /\ fut = Len(outcomes)
    /\ boxes[fut].session = i
    /\ fut \notin DOMAIN boxes'
    /\ fut' = NoFuture

\* C13: the callback is invoked once per attempt; the k-th completion is of
\* the k-th future made, which is then discarded; every future made has
\* completed by the time the driver is past the await, except the one of
\* the attempt a dropped driver was suspended in.
C13_AwaitedExactlyOnce ==
    /\ [][ConstructStep => FirstConstruct]_vars
    /\ [][CompleteStep => CompletesOnce]_vars
    /\ [](DOMAIN boxes \subseteq {Len(outcomes)})
    /\ [](Count("construct") = Created - (IF pc = "call" THEN 1 ELSE 0))
    /\ [](Len(outcomes) = Count("construct")
                          - (IF pc \in {"await", "Abandoned"} THEN 1 ELSE 0))

\* The third future has completed and is gone.
C13_Witness ==
    /\ pc = "drop"
    /\ Len(outcomes) = 3
    /\ Count("construct") = 3
    /\ DOMAIN boxes = {}

\* C14: no step changes the outer data or the callback that borrows it,
\* and the closures of the tests answer in every attempt k what str_eq
\* answers on that attempt's label and this same data.
C14_OuterUnchanged ==
    /\ [][data' = data /\ f' = f]_vars
    /\ [](f = "str_eq" =>
            \A k \in DOMAIN outcomes : outcomes[k] = str_eq(format(k - 1), data))

\* Twelve attempts have compared their label with the same "11 transaction".
C14_Witness ==
    /\ pc = "match"
    /\ f = "str_eq"
    /\ data = "11 transaction"
    /\ Len(outcomes) = 12

\* The resource made by the step is a new one, bound to `transaction`,
\* labelled with the attempt index, and its label is the label of no
\* earlier attempt.
CreatesFresh ==
    LET id == log'[Len(log')][2] IN
    /\ \A p \in DOMAIN log : log[p][2] # id
    /\ id = i
    /\ id \notin Live
    /\ transaction' = id
    /\ heap'[id] = format(i)
    /\ \A a \in 0..(i - 1) : format(a) # heap'[id]

\* The callback is handed the resource of the current attempt.
HandedOwnResource ==
    /\ boxes'[fut'].session = transaction
    /\ transaction = i
    /\ transaction \in Live
    /\ heap[transaction] = format(i)

\* C15: every attempt creates a new resource, labelled with its index and
\* unlike the label of every earlier attempt, and the callback of attempt i
\* is handed that resource; a live resource is always the current
\* attempt's, under its own label.
C15_FreshResource ==
    /\ [][CreateStep => CreatesFresh]_vars
    /\ [][ConstructStep => HandedOwnResource]_vars
    /\ [](\A id \in Live : id = i /\ id = transaction /\ heap[id] = format(id))

\* The callback of attempt 11 holds "11 transaction".
C15_Witness ==
    /\ pc = "await"
    /\ i = 11
    /\ Live = {11}
    /\ heap[11] = "11 transaction"
    /\ boxes[fut].session = 11

\* The state of the current computation changes, or an output appears.
Progress ==
    \/ outcomes' # outcomes
    \/ result' \notin {result, NoResult}
    \/ /\ fut \in DOMAIN boxes
       /\ fut \in DOMAIN boxes'
       /\ boxes'[fut] # boxes[fut]

\* The callback's step leaves the computation as the closure built it.
ConstructsUnpolled ==
    /\ boxes'[fut'] = Closure(transaction)
    /\ polls' = 0
    /\ outcomes' = outcomes
    /\ result' = result

\* C16: the callback's step boxes the computation without running it;
\* while the future has not been polled the computation is as it was built
\* and no await is on record for the attempt; the computation makes
\* progress only in a poll of the await step.
C16_ConstructionDoesNotRun ==
    /\ [][ConstructStep => ConstructsUnpolled]_vars
    /\ [][Progress => (PollStep /\ pc = "await")]_vars
    /\ []((pc = "await" /\ polls = 0) =>
            /\ boxes[fut].state = "unpolled"
            /\ log[Len(log)] = <<"construct", i>>
            /\ Len(outcomes) = i)

\* The callback of the second attempt has returned; nothing was polled.
C16_Witness ==
    /\ pc = "await"
    /\ polls = 0
    /\ i = 1
    /\ boxes[fut].state = "unpolled"
====
